---- MODULE Spec2Model ----
(***************************************************************************)
(* Model of the timeslotfinder core: TimeRange and WorkingHours            *)
(* (src/src/domain/models.py), SlotCalculator                              *)
(* (src/src/domain/slot_calculator.py) and TimeslotFinderService           *)
(* (src/timeslotfinder/services/timeslot_finder.py).                       *)
(*                                                                         *)
(* Instants are whole seconds counted from 00:00 of day 0, a Monday, in    *)
(* the one configured timezone (a fixed offset: daylight-saving shifts are *)
(* not modelled).  A Python dict is a sequence of [key, value] entries in  *)
(* insertion order with pairwise distinct keys.  A raised ValueError is    *)
(* the value ValueError, which every caller passes on unchanged, as an     *)
(* uncaught exception does.                                                *)
(***************************************************************************)
EXTENDS Integers, Sequences, FiniteSets, TLC

VARIABLES
    calculator,     \* the SlotCalculator: [working_hours |-> the WorkingHours policy]
    call,           \* the invocation in progress or last made: [op, arguments]
    ret,            \* what that invocation returned or raised
    locals,         \* the local variables of find_available_slots at its end
    svc,            \* the find_slots coroutine of TimeslotFinderService
    tasks           \* the invocations made one after another, or running
                    \* side by side, on the one calculator and service

vars == <<calculator, call, ret, locals, svc, tasks>>

(***************************************************************************)
(* Program constants                                                       *)
(***************************************************************************)
SecondsPerMinute == 60

SecondsPerDay == 86400

Max(a, b) == IF a >= b THEN a ELSE b

Min(a, b) == IF a <= b THEN a ELSE b

(***************************************************************************)
(* Values: the absent value, the validation error, a returned list         *)
(***************************************************************************)
None == [none |-> TRUE]

ValueError == [exception |-> "ValueError"]

Return(value) == [value |-> value]

(***************************************************************************)
(* TimeRange                                                               *)
(***************************************************************************)
\* TimeRange.__post_init__ with the comparison weakened to start > end.
TimeRange_AcceptsEmpty(start, end) ==
    IF start > end THEN ValueError ELSE [start |-> start, end |-> end]

\* TimeRange(start=..., end=...): the dataclass constructor and __post_init__.
TimeRange(start, end) ==
    IF start >= end THEN ValueError ELSE [start |-> start, end |-> end]

\* duration_minutes rounding to the nearest minute instead of truncating.
duration_minutes_Rounded(self) ==
    (self.end - self.start + (SecondsPerMinute \div 2)) \div SecondsPerMinute

\* int(total_seconds() / 60): end > start, so truncation is the floor.
duration_minutes(self) ==
    (self.end - self.start) \div SecondsPerMinute

\* overlaps with the boundaries included.
overlaps_Touching(self, other) ==
    self.start <= other.end /\ self.end >= other.start

overlaps(self, other) ==
    self.start < other.end /\ self.end > other.start

\* intersect keeping self's end instead of the smaller end.
intersect_KeepsOwnEnd(self, other) ==
    IF ~overlaps(self, other)
    THEN None
    ELSE TimeRange(Max(self.start, other.start), self.end)

\* intersect keeping self's start instead of the larger start.
intersect_KeepsOwnStart(self, other) ==
    IF ~overlaps(self, other)
    THEN None
    ELSE TimeRange(self.start, Min(self.end, other.end))

intersect(self, other) ==
    IF ~overlaps(self, other)
    THEN None
    ELSE TimeRange(Max(self.start, other.start), Min(self.end, other.end))

(***************************************************************************)
(* pendulum DateTime operations used by the code                           *)
(***************************************************************************)
\* dt.day_of_week, 0 = Monday .. 6 = Sunday
day_of_week(dt) == (dt \div SecondsPerDay) % 7

\* dt.start_of("day")
start_of_day(dt) == (dt \div SecondsPerDay) * SecondsPerDay

\* dt.add(days=1)
add_day(dt) == dt + SecondsPerDay

\* date.set(hour=h, minute=m, second=0, microsecond=0)
date_set(date, hour, minute) ==
    start_of_day(date) + (hour * 60 + minute) * SecondsPerMinute

(***************************************************************************)
(* WorkingHours: [start_time, end_time: [hour, minute], exclude_weekdays]  *)
(***************************************************************************)
is_working_day(self, dt) == day_of_week(dt) \notin self.exclude_weekdays

\* get_working_hours_for_day that ignores the excluded weekdays.
get_working_hours_for_day_NoExclusion(self, date) ==
    TimeRange(date_set(date, self.start_time.hour, self.start_time.minute),
              date_set(date, self.end_time.hour, self.end_time.minute))

get_working_hours_for_day(self, date) ==
    IF ~is_working_day(self, date)
    THEN None
    ELSE TimeRange(date_set(date, self.start_time.hour, self.start_time.minute),
                   date_set(date, self.end_time.hour, self.end_time.minute))

(***************************************************************************)
(* SlotCalculator                                                          *)
(***************************************************************************)
\* _clip_range_to_bounds handing back an overlapping range as it is, unclipped.
clip_range_to_bounds_Unclipped(time_range, min_bound, max_bound) ==
    IF time_range.end <= min_bound \/ time_range.start >= max_bound
    THEN None
    ELSE time_range

\* _clip_range_to_bounds
clip_range_to_bounds(time_range, min_bound, max_bound) ==
    IF time_range.end <= min_bound \/ time_range.start >= max_bound
    THEN None
    ELSE TimeRange(Max(time_range.start, min_bound),
                   Min(time_range.end, max_bound))

RECURSIVE working_blocks_loop(_, _, _, _, _)
\* the while loop of _get_working_blocks, from `current` on
working_blocks_loop(working_hours, current, start_date, end_date, blocks) ==
    IF ~(current <= end_date)
    THEN Return(blocks)
    ELSE LET wh == get_working_hours_for_day(working_hours, current)
         IN IF wh = ValueError THEN ValueError
            ELSE IF wh = None
            THEN working_blocks_loop(working_hours, add_day(current),
                                     start_date, end_date, blocks)
            ELSE LET clipped == clip_range_to_bounds(wh, start_date, end_date)
                 IN IF clipped = ValueError THEN ValueError
                    ELSE working_blocks_loop(
                             working_hours, add_day(current), start_date, end_date,
                             IF clipped = None THEN blocks
                             ELSE Append(blocks, clipped))

\* _get_working_blocks
get_working_blocks(working_hours, start_date, end_date) ==
    working_blocks_loop(working_hours, start_of_day(start_date),
                        start_date, end_date, <<>>)

\* The busy intervals taken in the order they were given, without sorting.
sorted_by_start_AsGiven(ranges) == ranges

RECURSIVE sorted_by_start(_)
\* sorted(ranges, key=lambda r: r.start): stable
sorted_by_start(ranges) ==
    IF Len(ranges) = 0 THEN <<>>
    ELSE LET pre == sorted_by_start(SubSeq(ranges, 1, Len(ranges) - 1))
             x == ranges[Len(ranges)]
             k == Cardinality({i \in 1..Len(pre) : pre[i].start <= x.start})
         IN SubSeq(pre, 1, k) \o <<x>> \o SubSeq(pre, k + 1, Len(pre))

RECURSIVE subtract_loop_ForgetsCovered(_, _, _, _, _)
\* subtract_loop moving current_start to the end of each busy interval, even
\* back into time an earlier interval has covered.
subtract_loop_ForgetsCovered(working_block, sorted_busy, i, current_start, free_ranges) ==
    IF i > Len(sorted_busy)
    THEN IF current_start < working_block.end
         THEN Return(Append(free_ranges,
                            TimeRange(current_start, working_block.end)))
         ELSE Return(free_ranges)
    ELSE LET busy == sorted_busy[i]
             clipped_busy_start == Max(busy.start, working_block.start)
             clipped_busy_end == Min(busy.end, working_block.end)
         IN subtract_loop_ForgetsCovered(
                working_block, sorted_busy, i + 1, clipped_busy_end,
                IF current_start < clipped_busy_start
                THEN Append(free_ranges,
                            TimeRange(current_start, clipped_busy_start))
                ELSE free_ranges)

RECURSIVE subtract_loop(_, _, _, _, _)
\* the for loop of _subtract_busy_from_block and the trailing free range
subtract_loop(working_block, sorted_busy, i, current_start, free_ranges) ==
    IF i > Len(sorted_busy)
    THEN IF current_start < working_block.end
         THEN LET r == TimeRange(current_start, working_block.end)
              IN IF r = ValueError THEN ValueError
                 ELSE Return(Append(free_ranges, r))
         ELSE Return(free_ranges)
    ELSE LET busy == sorted_busy[i]
             clipped_busy_start == Max(busy.start, working_block.start)
             clipped_busy_end == Min(busy.end, working_block.end)
             next_start == Max(current_start, clipped_busy_end)
         IN IF current_start < clipped_busy_start
            THEN LET r == TimeRange(current_start, clipped_busy_start)
                 IN IF r = ValueError THEN ValueError
                    ELSE subtract_loop(working_block, sorted_busy, i + 1,
                                       next_start, Append(free_ranges, r))
            ELSE subtract_loop(working_block, sorted_busy, i + 1,
                               next_start, free_ranges)

\* _subtract_busy_from_block
subtract_busy_from_block(working_block, busy_ranges) ==
    subtract_loop(working_block, sorted_by_start(busy_ranges), 1,
                  working_block.start, <<>>)

RECURSIVE invert_loop(_, _, _, _)
\* the for loop of _invert_busy_to_free over the working blocks
invert_loop(working_blocks, sorted_busy, b, free_times) ==
    IF b > Len(working_blocks) THEN Return(free_times)
    ELSE LET working_block == working_blocks[b]
             overlapping_busy ==
                 SelectSeq(sorted_busy, LAMBDA busy : overlaps(working_block, busy))
         IN IF overlapping_busy = <<>>
            THEN invert_loop(working_blocks, sorted_busy, b + 1,
                             Append(free_times, working_block))
            ELSE LET sub == subtract_busy_from_block(working_block, overlapping_busy)
                 IN IF sub = ValueError THEN ValueError
                    ELSE invert_loop(working_blocks, sorted_busy, b + 1,
                                     free_times \o sub.value)

\* _invert_busy_to_free subtracting the busy intervals from the whole span of
\* the working blocks at once instead of block by block.
invert_busy_to_free_AcrossWindow(working_blocks, busy_ranges) ==
    subtract_busy_from_block(
        TimeRange(working_blocks[1].start,
                  working_blocks[Len(working_blocks)].end),
        busy_ranges)

\* _invert_busy_to_free
invert_busy_to_free(working_blocks, busy_ranges) ==
    invert_loop(working_blocks, sorted_by_start(busy_ranges), 1, <<>>)

RECURSIVE merge_loop_KeepsAdjacent(_, _, _)
\* merge_loop merging only the ranges that overlap, not the ones that touch.
merge_loop_KeepsAdjacent(sorted_ranges, i, merged) ==
    IF i > Len(sorted_ranges) THEN Return(merged)
    ELSE LET current == sorted_ranges[i]
             last == merged[Len(merged)]
         IN IF current.start < last.end
            THEN merge_loop_KeepsAdjacent(
                     sorted_ranges, i + 1,
                     [merged EXCEPT ![Len(merged)] =
                         TimeRange(last.start, Max(last.end, current.end))])
            ELSE merge_loop_KeepsAdjacent(sorted_ranges, i + 1,
                                          Append(merged, current))

RECURSIVE merge_loop(_, _, _)
\* the for loop of _merge_adjacent_ranges over sorted_ranges[1:]
merge_loop(sorted_ranges, i, merged) ==
    IF i > Len(sorted_ranges) THEN Return(merged)
    ELSE LET current == sorted_ranges[i]
             last == merged[Len(merged)]
         IN IF current.start <= last.end
            THEN LET r == TimeRange(last.start, Max(last.end, current.end))
                 IN IF r = ValueError THEN ValueError
                    ELSE merge_loop(sorted_ranges, i + 1,
                                    [merged EXCEPT ![Len(merged)] = r])
            ELSE merge_loop(sorted_ranges, i + 1, Append(merged, current))

\* _merge_adjacent_ranges
merge_adjacent_ranges(ranges) ==
    IF ranges = <<>> THEN Return(<<>>)
    ELSE LET sorted_ranges == sorted_by_start(ranges)
         IN merge_loop(sorted_ranges, 2, <<sorted_ranges[1]>>)

RECURSIVE intersections_loop(_, _, _, _)
\* the nested for loops of _intersect_two_lists; k counts the pairs visited,
\* range1 in the outer loop and range2 in the inner one
intersections_loop(list1, list2, k, intersections) ==
    IF k >= Len(list1) * Len(list2) THEN Return(intersections)
    ELSE LET range1 == list1[(k \div Len(list2)) + 1]
             range2 == list2[(k % Len(list2)) + 1]
             intersection == intersect(range1, range2)
         IN IF intersection = ValueError THEN ValueError
            ELSE intersections_loop(
                     list1, list2, k + 1,
                     IF intersection = None THEN intersections
                     ELSE Append(intersections, intersection))

\* _intersect_two_lists
intersect_two_lists(list1, list2) ==
    LET found == intersections_loop(list1, list2, 0, <<>>)
    IN IF found = ValueError THEN ValueError
       ELSE merge_adjacent_ranges(found.value)

RECURSIVE intersect_fold(_, _, _)
\* the for loop of _intersect_all_participants over participants[1:]
intersect_fold(participant_free_times, p, result) ==
    IF p > Len(participant_free_times) THEN Return(result)
    ELSE LET next == intersect_two_lists(result, participant_free_times[p].value)
         IN IF next = ValueError THEN ValueError
            ELSE IF next.value = <<>> THEN Return(<<>>)
            ELSE intersect_fold(participant_free_times, p + 1, next.value)

\* _intersect_all_participants passing over the participants who have no
\* free range at all.
intersect_all_participants_SkipsEmpty(participant_free_times) ==
    LET nonempty == SelectSeq(participant_free_times,
                              LAMBDA entry : entry.value # <<>>)
    IN IF nonempty = <<>> THEN Return(<<>>)
       ELSE intersect_fold(nonempty, 2, nonempty[1].value)

\* _intersect_all_participants
intersect_all_participants(participant_free_times) ==
    IF participant_free_times = <<>> THEN Return(<<>>)
    ELSE intersect_fold(participant_free_times, 2, participant_free_times[1].value)

RECURSIVE free_times_loop(_, _, _, _)
\* step 2 of find_available_slots: the loop over busy_times.items()
free_times_loop(working_blocks, busy_times, p, participant_free_times) ==
    IF p > Len(busy_times) THEN Return(participant_free_times)
    ELSE LET free_times == invert_busy_to_free(working_blocks, busy_times[p].value)
         IN IF free_times = ValueError THEN ValueError
            ELSE free_times_loop(
                     working_blocks, busy_times, p + 1,
                     Append(participant_free_times,
                            [key |-> busy_times[p].key, value |-> free_times.value]))

\* the keys of the participants who have a busy interval only.
keys_OfTheBusy(dict) ==
    LET busy == SelectSeq(dict, LAMBDA entry : entry.value # <<>>)
    IN [i \in 1..Len(busy) |-> busy[i].key]

\* list(busy_times.keys())
keys(dict) == [i \in 1..Len(dict) |-> dict[i].key]

\* step 4 keeping only the intervals that last longer than the minimum.
valid_slots_LongerThanMinimum(common_free_times, min_duration_minutes) ==
    SelectSeq(common_free_times,
              LAMBDA tr : duration_minutes(tr) > min_duration_minutes)

\* step 4 keeping the intervals that last at most the minimum.
valid_slots_AtMostMinimum(common_free_times, min_duration_minutes) ==
    SelectSeq(common_free_times,
              LAMBDA tr : duration_minutes(tr) <= min_duration_minutes)

RECURSIVE valid_slots_LatestFirst(_, _)
\* step 4 handing the intervals on with the latest first.
valid_slots_LatestFirst(common_free_times, min_duration_minutes) ==
    IF common_free_times = <<>> THEN <<>>
    ELSE LET tr == Head(common_free_times)
             rest == valid_slots_LatestFirst(Tail(common_free_times),
                                             min_duration_minutes)
         IN IF duration_minutes(tr) >= min_duration_minutes
            THEN Append(rest, tr) ELSE rest

\* step 4 of find_available_slots: the filter by minimum duration
valid_slots(common_free_times, min_duration_minutes) ==
    SelectSeq(common_free_times,
              LAMBDA tr : duration_minutes(tr) >= min_duration_minutes)

\* find_available_slots without the test for an empty participant list, the
\* intersection over nobody being all the working blocks.
find_available_slots_frame_BlocksForNobody(working_hours, start_date, end_date, busy_times, min_duration_minutes) ==
    LET participants == keys(busy_times)
        blocks == get_working_blocks(working_hours, start_date, end_date)
        frame(wb, pft, cft, outcome) ==
            [working_blocks |-> wb, participant_free_times |-> pft,
             common_free_times |-> cft, outcome |-> outcome]
    IN IF blocks = ValueError THEN frame(<<>>, <<>>, <<>>, ValueError)
       ELSE IF blocks.value = <<>> THEN frame(<<>>, <<>>, <<>>, Return(<<>>))
       ELSE LET pft == free_times_loop(blocks.value, busy_times, 1, <<>>).value
                common == IF participants = <<>> THEN blocks.value
                          ELSE intersect_all_participants(pft).value
                kept == valid_slots(common, min_duration_minutes)
            IN frame(blocks.value, pft, common,
                     Return([i \in 1..Len(kept) |->
                                [time_range |-> kept[i],
                                 participants |-> participants]]))

\* The local variables of find_available_slots when it returns or raises:
\* working_blocks, participant_free_times, common_free_times, and the outcome
\* (Return(slots) or ValueError).  A local not yet assigned is <<>>.
find_available_slots_frame(working_hours, start_date, end_date, busy_times, min_duration_minutes) ==
    LET participants == keys(busy_times)
        blocks == get_working_blocks(working_hours, start_date, end_date)
        frame(wb, pft, cft, outcome) ==
            [working_blocks |-> wb, participant_free_times |-> pft,
             common_free_times |-> cft, outcome |-> outcome]
    IN IF participants = <<>> THEN frame(<<>>, <<>>, <<>>, Return(<<>>))
       ELSE IF blocks = ValueError THEN frame(<<>>, <<>>, <<>>, ValueError)
       ELSE IF blocks.value = <<>> THEN frame(<<>>, <<>>, <<>>, Return(<<>>))
       ELSE LET pft == free_times_loop(blocks.value, busy_times, 1, <<>>)
            IN IF pft = ValueError
               THEN frame(blocks.value, <<>>, <<>>, ValueError)
               ELSE LET common == intersect_all_participants(pft.value)
                    IN IF common = ValueError
                       THEN frame(blocks.value, pft.value, <<>>, ValueError)
                       ELSE LET kept == valid_slots(common.value,
                                                    min_duration_minutes)
                                slots ==
                                    [i \in 1..Len(kept) |->
                                        [time_range |-> kept[i],
                                         participants |-> participants]]
                            IN frame(blocks.value, pft.value, common.value,
                                     Return(slots))

\* SlotCalculator(working_hours).find_available_slots(...)
find_available_slots(working_hours, start_date, end_date, busy_times, min_duration_minutes) ==
    find_available_slots_frame(working_hours, start_date, end_date, busy_times,
                               min_duration_minutes).outcome

(***************************************************************************)
(* State shared by the specifications                                      *)
(***************************************************************************)
\* No invocation has been made yet.
NoCall == [op |-> "none"]

NoLocals ==
    [working_blocks |-> <<>>, participant_free_times |-> <<>>,
     common_free_times |-> <<>>]

LocalsOf(frame) ==
    [working_blocks |-> frame.working_blocks,
     participant_free_times |-> frame.participant_free_times,
     common_free_times |-> frame.common_free_times]

\* The find_slots coroutine has not been created.
NoService == [pc |-> "idle"]

Time(hour, minute) == [hour |-> hour, minute |-> minute]

WorkingHours(start_time, end_time, exclude_weekdays) ==
    [start_time |-> start_time, end_time |-> end_time,
     exclude_weekdays |-> exclude_weekdays]

\* SlotCalculator.__init__
SlotCalculator(working_hours) == [working_hours |-> working_hours]

\* datetime.time ordering, on the hour and minute the code reads
TimeBefore(t1, t2) ==
    t1.hour < t2.hour \/ (t1.hour = t2.hour /\ t1.minute < t2.minute)

\* DefaultsConfig(start_hour=..., end_hour=...) of timeslotfinder/config.py:
\* validate_hour on both fields, then validate_hours_order.
DefaultsConfig(start_hour, end_hour) ==
    IF ~(0 <= start_hour /\ start_hour <= 23) \/ ~(0 <= end_hour /\ end_hour <= 23)
    THEN ValueError
    ELSE IF end_hour <= start_hour
    THEN ValueError
    ELSE [start_hour |-> start_hour, end_hour |-> end_hour]

\* DefaultsConfig.get_start_time
get_start_time(self) == Time(self.start_hour, 0)

\* DefaultsConfig.get_end_time
get_end_time(self) == Time(self.end_hour, 0)

(***************************************************************************)
(* Bounds and input domains                                                *)
(***************************************************************************)
\* TimeRange operations are tried on instants up to this many minutes ...
MaxMinute == 2

\* ... at these seconds within the minute,
SecondsInMinute == {0, 1, 30, 59}

\* and on the durations the tests and the documentation name:
\* 29 min 59 s, 30 min, 30 min 59 s, 8 h.
NamedInstants == {1799, 1800, 1859, 28800}

Instants ==
    {m * SecondsPerMinute + s : m \in 0..MaxMinute, s \in SecondsInMinute}
        \cup NamedInstants

\* Every TimeRange that can be constructed over a set of instants.
RangesOver(instants) ==
    {TimeRange(s, e) : s \in instants, e \in instants} \ {ValueError}

PolicyTimes == {Time(9, 0), Time(9, 30), Time(17, 0)}

ExcludeSets == {{5, 6}, {1}, {0, 1, 2, 3, 4}}

\* The dataclass accepts any two times: no order is enforced on construction.
Policies ==
    {WorkingHours(st, et, ex) :
        st \in PolicyTimes, et \in PolicyTimes, ex \in ExcludeSets}

\* minimum durations searched with, in minutes
MinDurations == {60, 121}

\* One week of dates, each at midnight, mid-day and the last second of the day.
WeekDates ==
    {d * SecondsPerDay + t : d \in 0..6, t \in {0, 45296, SecondsPerDay - 1}}

(***************************************************************************)
(* TimeRange operations as actions                                         *)
(***************************************************************************)
Idle == call = NoCall

Construct ==
    /\ Idle
    /\ \E start \in Instants, end \in Instants :
          /\ call' = [op |-> "TimeRange", start |-> start, end |-> end]
          /\ ret' = TimeRange(start, end)
    /\ UNCHANGED <<calculator, locals, svc, tasks>>

DurationMinutes ==
    /\ Idle
    /\ \E self \in RangesOver(Instants) :
          /\ call' = [op |-> "duration_minutes", self |-> self]
          /\ ret' = duration_minutes(self)
    /\ UNCHANGED <<calculator, locals, svc, tasks>>

Overlaps ==
    /\ Idle
    /\ \E self \in RangesOver(Instants), other \in RangesOver(Instants) :
          /\ call' = [op |-> "overlaps", self |-> self, other |-> other]
          /\ ret' = overlaps(self, other)
    /\ UNCHANGED <<calculator, locals, svc, tasks>>

Intersect ==
    /\ Idle
    /\ \E self \in RangesOver(Instants), other \in RangesOver(Instants) :
          /\ call' = [op |-> "intersect", self |-> self, other |-> other]
          /\ ret' = intersect(self, other)
    /\ UNCHANGED <<calculator, locals, svc, tasks>>

InitTimeRange ==
    /\ calculator = SlotCalculator(WorkingHours(Time(9, 0), Time(17, 0), {5, 6}))
    /\ call = NoCall
    /\ ret = None
    /\ locals = NoLocals
    /\ svc = NoService
    /\ tasks = <<>>

NextTimeRange == Construct \/ DurationMinutes \/ Overlaps \/ Intersect

SpecTimeRange == InitTimeRange /\ [][NextTimeRange]_vars

(***************************************************************************)
(* WorkingHours operations as actions                                      *)
(***************************************************************************)
IsWorkingDay ==
    /\ Idle
    /\ \E dt \in WeekDates :
          /\ call' = [op |-> "is_working_day", dt |-> dt]
          /\ ret' = is_working_day(calculator.working_hours, dt)
    /\ UNCHANGED <<calculator, locals, svc, tasks>>

GetWorkingHoursForDay ==
    /\ Idle
    /\ \E date \in WeekDates :
          /\ call' = [op |-> "get_working_hours_for_day", date |-> date]
          /\ ret' = get_working_hours_for_day(calculator.working_hours, date)
    /\ UNCHANGED <<calculator, locals, svc, tasks>>

\* The hours a configuration file may give: valid ones, and 24.
ConfigHours == {9, 17, 24}

\* WorkingHours(start_time=..., end_time=..., exclude_weekdays=...): the
\* dataclass constructor, which has no __post_init__.
NewWorkingHours ==
    /\ Idle
    /\ \E start_time \in PolicyTimes, end_time \in PolicyTimes,
          exclude_weekdays \in ExcludeSets :
          /\ call' = [op |-> "WorkingHours", start_time |-> start_time,
                      end_time |-> end_time,
                      exclude_weekdays |-> exclude_weekdays]
          /\ ret' = WorkingHours(start_time, end_time, exclude_weekdays)
    /\ UNCHANGED <<calculator, locals, svc, tasks>>

\* A policy built from the validated defaults of a configuration:
\* WorkingHours(defaults.get_start_time(), defaults.get_end_time(), exclude_days)
WorkingHoursFromDefaults ==
    /\ Idle
    /\ \E start_hour \in ConfigHours, end_hour \in ConfigHours,
          exclude_days \in ExcludeSets :
          /\ call' = [op |-> "DefaultsConfig", start_hour |-> start_hour,
                      end_hour |-> end_hour, exclude_days |-> exclude_days]
          /\ \E defaults \in {DefaultsConfig(start_hour, end_hour)} :
                ret' = IF defaults = ValueError THEN ValueError
                       ELSE WorkingHours(get_start_time(defaults),
                                         get_end_time(defaults), exclude_days)
    /\ UNCHANGED <<calculator, locals, svc, tasks>>

\* find_available_slots(start_date, end_date, busy_times={}, ...): a search
\* for nobody, under any policy the constructor accepts
FindAvailableSlotsOfNobody ==
    /\ Idle
    /\ \E start_date \in WeekDates, end_date \in WeekDates,
          min_duration_minutes \in MinDurations :
          /\ start_date <= end_date
          /\ \E frame \in {find_available_slots_frame(
                               calculator.working_hours, start_date, end_date,
                               <<>>, min_duration_minutes)} :
                /\ call' = [op |-> "find_available_slots",
                            start_date |-> start_date, end_date |-> end_date,
                            busy_times |-> <<>>,
                            min_duration_minutes |-> min_duration_minutes]
                /\ ret' = frame.outcome
                /\ locals' = LocalsOf(frame)
    /\ UNCHANGED <<calculator, svc, tasks>>

InitWorkingHours ==
    /\ calculator \in {SlotCalculator(wh) : wh \in Policies}
    /\ call = NoCall
    /\ ret = None
    /\ locals = NoLocals
    /\ svc = NoService
    /\ tasks = <<>>

NextWorkingHours ==
    \/ IsWorkingDay
    \/ GetWorkingHoursForDay
    \/ NewWorkingHours
    \/ WorkingHoursFromDefaults
    \/ FindAvailableSlotsOfNobody

SpecWorkingHours == InitWorkingHours /\ [][NextWorkingHours]_vars

(***************************************************************************)
(* SlotCalculator.find_available_slots as an action                        *)
(***************************************************************************)
\* Search windows run over days 0..MaxDay (Monday onwards) ...
MaxDay == 1

\* ... and start or end at midnight, 09:00, 12:00 or 17:00.
WindowTimes == {0, 32400, 43200, 61200}

WindowInstants ==
    {d * SecondsPerDay + t : d \in 0..MaxDay, t \in WindowTimes}

\* A busy-time map holds at most MaxBusy busy intervals over all participants.
MaxBusy == 2

People == <<"a", "b">>

\* Busy intervals, as [start, end] in seconds: two adjacent ones inside the
\* 09:00-17:00 block of day 0, one overlapping the first and leaving 59 min
\* 30 s free before it, one ending where the block starts, and one covering
\* the whole block and running over midnight into the block of day 1.
BusyBounds ==
    { <<36000, 43200>>,   \* 10:00 - 12:00
      <<43200, 50400>>,   \* 12:00 - 14:00
      <<35970, 39600>>,   \* 09:59:30 - 11:00
      <<25200, 32400>>,   \* 07:00 - 09:00
      <<28800, 122400>> } \* 08:00 - 10:00 of day 1

BusyRanges == {TimeRange(b[1], b[2]) : b \in BusyBounds} \ {ValueError}

BusyListsOfLen(n) == [1..n -> BusyRanges]

RECURSIVE BusyMapsOver(_, _)
\* the maps whose keys are the first k people, with at most `budget` intervals
BusyMapsOver(k, budget) ==
    IF k = 0 THEN {<<>>}
    ELSE UNION {
           {Append(m, [key |-> People[k], value |-> l]) :
               m \in BusyMapsOver(k - 1, budget - n), l \in BusyListsOfLen(n)} :
           n \in 0..budget}

BusyMaps == UNION {BusyMapsOver(k, MaxBusy) : k \in 0..Len(People)}

\* 09:00 - 17:00 with the weekend off, and with Tuesday off
CalcPolicies ==
    { WorkingHours(Time(9, 0), Time(17, 0), {5, 6}),
      WorkingHours(Time(9, 0), Time(17, 0), {1}) }

FindAvailableSlots ==
    /\ Idle
    /\ \E start_date \in WindowInstants, end_date \in WindowInstants,
          busy_times \in BusyMaps, min_duration_minutes \in MinDurations :
          /\ start_date <= end_date
          /\ \E frame \in {find_available_slots_frame(
                               calculator.working_hours, start_date, end_date,
                               busy_times, min_duration_minutes)} :
                /\ call' = [op |-> "find_available_slots",
                            start_date |-> start_date, end_date |-> end_date,
                            busy_times |-> busy_times,
                            min_duration_minutes |-> min_duration_minutes]
                /\ ret' = frame.outcome
                /\ locals' = LocalsOf(frame)
    /\ UNCHANGED <<calculator, svc, tasks>>

\* Windows around a weekend: Friday 00:00 - Monday 23:59, Friday 12:00 -
\* Monday 12:00, and the one day Friday 00:00 - 23:59.
WeekendWindows == {<<345600, 691140>>, <<388800, 648000>>, <<345600, 431940>>}

Team == <<"a", "b", "c">>

\* What one member of the team is busy with: nothing; Friday 10:00 - 12:00
\* and 12:15 - 17:00, which leave gaps of 60 and of 15 minutes; Friday 16:00 -
\* Monday 10:00; Monday 12:00 - 14:00; or, given out of order, Monday 08:00 -
\* 18:00 and Friday 08:00 - 18:00, which cover both working days.
TeamBusyLists ==
    { <<>>,
      <<TimeRange(381600, 388800), TimeRange(389700, 406800)>>,
      <<TimeRange(403200, 640800)>>,
      <<TimeRange(648000, 655200)>>,
      <<TimeRange(633600, 669600), TimeRange(374400, 410400)>> }

\* the busy-time maps of the first k members of the team, k = 1..3
TeamMaps ==
    UNION {{[i \in 1..k |-> [key |-> Team[i], value |-> lists[i]]] :
               lists \in [1..k -> TeamBusyLists]} : k \in 1..Len(Team)}

\* the minimum durations of the tests, and one hour
TeamMinDurations == {15, 30, 60}

\* find_available_slots for a team of up to three around a weekend
FindAvailableSlotsOverWeekend ==
    /\ Idle
    /\ \E window \in WeekendWindows, busy_times \in TeamMaps,
          min_duration_minutes \in TeamMinDurations :
          \E frame \in {find_available_slots_frame(
                            calculator.working_hours, window[1], window[2],
                            busy_times, min_duration_minutes)} :
             /\ call' = [op |-> "find_available_slots",
                         start_date |-> window[1], end_date |-> window[2],
                         busy_times |-> busy_times,
                         min_duration_minutes |-> min_duration_minutes]
             /\ ret' = frame.outcome
             /\ locals' = LocalsOf(frame)
    /\ UNCHANGED <<calculator, svc, tasks>>

\* self._get_working_blocks(start_date, end_date)
GetWorkingBlocks ==
    /\ Idle
    /\ \E start_date \in WindowInstants, end_date \in WindowInstants :
          /\ start_date <= end_date
          /\ call' = [op |-> "_get_working_blocks",
                      start_date |-> start_date, end_date |-> end_date]
          /\ ret' = get_working_blocks(calculator.working_hours,
                                       start_date, end_date)
    /\ UNCHANGED <<calculator, locals, svc, tasks>>

InitCalc ==
    /\ calculator \in {SlotCalculator(wh) : wh \in CalcPolicies}
    /\ call = NoCall
    /\ ret = None
    /\ locals = NoLocals
    /\ svc = NoService
    /\ tasks = <<>>

NextCalc ==
    \/ Construct
    \/ FindAvailableSlots
    \/ FindAvailableSlotsOverWeekend
    \/ GetWorkingBlocks

SpecCalc == InitCalc /\ [][NextCalc]_vars

\* The searches of a team around a weekend, on their own.
NextTeam == FindAvailableSlotsOverWeekend

SpecTeam == InitCalc /\ [][NextTeam]_vars

\* Busy lists of one Friday whose intervals touch, overlap, contain one another
\* or chain, given in and out of order; the last runs over the weekend.
OverlappingBusyLists ==
    { <<>>,
      <<TimeRange(381600, 388800), TimeRange(388800, 396000)>>,   \* 10-12, 12-14
      <<TimeRange(385200, 399600), TimeRange(381600, 388800)>>,   \* 11-15, 10-12
      <<TimeRange(381600, 403200), TimeRange(385200, 388800)>>,   \* 10-16, 11-12
      <<TimeRange(381600, 388800), TimeRange(392400, 396000),
        TimeRange(388800, 392400)>>,                       \* 10-12, 13-14, 12-13
      <<TimeRange(403200, 640800), TimeRange(374400, 403200)>> }
                                         \* Fri 16:00 - Mon 10:00, Fri 08 - 16

OverlappingMaps ==
    UNION {{[i \in 1..k |-> [key |-> Team[i], value |-> lists[i]]] :
               lists \in [1..k -> OverlappingBusyLists]} : k \in 1..2}

\* find_available_slots for one or two participants with such lists
FindAvailableSlotsOfOverlapping ==
    /\ Idle
    /\ \E window \in WeekendWindows, busy_times \in OverlappingMaps,
          min_duration_minutes \in TeamMinDurations :
          \E frame \in {find_available_slots_frame(
                            calculator.working_hours, window[1], window[2],
                            busy_times, min_duration_minutes)} :
             /\ call' = [op |-> "find_available_slots",
                         start_date |-> window[1], end_date |-> window[2],
                         busy_times |-> busy_times,
                         min_duration_minutes |-> min_duration_minutes]
             /\ ret' = frame.outcome
             /\ locals' = LocalsOf(frame)
    /\ UNCHANGED <<calculator, svc, tasks>>

NextOverlapping == FindAvailableSlotsOfOverlapping

SpecOverlapping == InitCalc /\ [][NextOverlapping]_vars

\* _merge_adjacent_ranges is tried on lists of up to MaxMerge ranges,
MaxMerge == 3

\* in any order and with repetitions: ranges that touch, overlap, nest, or
\* lie apart.
MergeLists == UNION {[1..n -> BusyRanges] : n \in 0..MaxMerge}

\* self._merge_adjacent_ranges(ranges)
MergeAdjacentRanges ==
    /\ Idle
    /\ \E ranges \in MergeLists :
          /\ call' = [op |-> "_merge_adjacent_ranges", ranges |-> ranges]
          /\ ret' = merge_adjacent_ranges(ranges)
    /\ UNCHANGED <<calculator, locals, svc, tasks>>

NextMerge == MergeAdjacentRanges

SpecMerge == InitCalc /\ [][NextMerge]_vars

(***************************************************************************)
(* TimeslotFinderService                                                   *)
(***************************************************************************)
\* key in dict
dict_has(dict, key) == \E i \in 1..Len(dict) : dict[i].key = key

\* dict.get(key, default)
dict_get(dict, key, default) ==
    IF dict_has(dict, key)
    THEN dict[CHOOSE i \in 1..Len(dict) : dict[i].key = key].value
    ELSE default

\* dict[key] = value: a present key keeps its place, a new one goes last
dict_set(dict, key, value) ==
    IF dict_has(dict, key)
    THEN [i \in 1..Len(dict) |->
             IF dict[i].key = key THEN [key |-> key, value |-> value] ELSE dict[i]]
    ELSE Append(dict, [key |-> key, value |-> value])

RECURSIVE requested_loop(_, _, _, _)
\* the first for loop of _ensure_busy_time_entries
requested_loop(participants, busy_times, i, normalized) ==
    IF i > Len(participants) THEN normalized
    ELSE requested_loop(
             participants, busy_times, i + 1,
             dict_set(normalized, participants[i],
                      dict_get(busy_times, participants[i], <<>>)))

RECURSIVE additional_loop(_, _, _)
\* the second for loop of _ensure_busy_time_entries
additional_loop(busy_times, i, normalized) ==
    IF i > Len(busy_times) THEN normalized
    ELSE additional_loop(
             busy_times, i + 1,
             IF ~dict_has(normalized, busy_times[i].key)
             THEN dict_set(normalized, busy_times[i].key, busy_times[i].value)
             ELSE normalized)

\* _ensure_busy_time_entries handing the response on as it came.
ensure_busy_time_entries_Unnormalized(participants, busy_times) == busy_times

\* _ensure_busy_time_entries leaving out the participants the response omits.
ensure_busy_time_entries_SkipsAbsent(participants, busy_times) ==
    additional_loop(
        busy_times, 1,
        requested_loop(
            SelectSeq(participants, LAMBDA p : dict_has(busy_times, p)),
            busy_times, 1, <<>>))

\* _ensure_busy_time_entries without its second loop: entries of the response
\* for participants nobody requested are dropped.
ensure_busy_time_entries_RequestedOnly(participants, busy_times) ==
    requested_loop(participants, busy_times, 1, <<>>)

\* _ensure_busy_time_entries
ensure_busy_time_entries(participants, busy_times) ==
    additional_loop(busy_times, 1,
                    requested_loop(participants, busy_times, 1, <<>>))

\* What get_schedule raises when it fails; the service has no except clause.
CalendarAPIError == [exception |-> "CalendarAPIError"]

\* find_slots and fetch_busy_times take up to MaxRequested participants,
\* repetitions included.
MaxRequested == 2

Requests == UNION {[1..n -> {People[i] : i \in 1..Len(People)}] : n \in 0..MaxRequested}

\* The collaborator answers with up to two entries, for requested participants
\* or for "c", whom nobody requests, in any order.
ScheduleKeys == {"a", "b", "c"}

ScheduleLists ==
    { <<>>,
      <<TimeRange(36000, 43200)>>,                            \* 10:00 - 12:00
      <<TimeRange(28800, 64800)>>,                            \* 08:00 - 18:00
      <<TimeRange(43200, 50400), TimeRange(35970, 39600)>> }  \* unsorted

Schedules ==
    {<<>>}
    \cup {<<[key |-> k, value |-> l]>> : k \in ScheduleKeys, l \in ScheduleLists}
    \cup {m \in {<<[key |-> k1, value |-> l1], [key |-> k2, value |-> l2]>> :
                    k1 \in ScheduleKeys, k2 \in ScheduleKeys,
                    l1 \in ScheduleLists, l2 \in ScheduleLists} :
            m[1].key # m[2].key}

\* Monday 00:00 - 17:00, Monday 12:00 - Tuesday 12:00, Monday 12:00 - 12:00
ServiceWindows == {<<0, 61200>>, <<43200, 129600>>, <<43200, 43200>>}

Timezones == {"Europe/Berlin"}

\* The coroutine up to `await self._calendar_client.get_schedule(...)`:
\* participant_list is built and the one request is handed to the collaborator.
AwaitGetSchedule(participants, start_date, end_date, timezone) ==
    [pc |-> "await_get_schedule",
     participant_list |-> participants,
     get_schedule_calls |->
         <<[emails |-> participants, start_time |-> start_date,
            end_time |-> end_date, timezone |-> timezone]>>,
     schedule |-> None,
     calculator_calls |-> <<>>]

\* await service.fetch_busy_times(...), called directly
FetchBusyTimes ==
    /\ Idle
    /\ svc.pc = "idle"
    /\ \E participants \in Requests, window \in ServiceWindows, timezone \in Timezones :
          /\ call' = [op |-> "fetch_busy_times", participants |-> participants,
                      start_date |-> window[1], end_date |-> window[2],
                      timezone |-> timezone]
          /\ svc' = AwaitGetSchedule(participants, window[1], window[2], timezone)
    /\ UNCHANGED <<calculator, ret, locals, tasks>>

\* await service.find_slots(...)
FindSlots ==
    /\ Idle
    /\ svc.pc = "idle"
    /\ \E participants \in Requests, window \in ServiceWindows, timezone \in Timezones,
          min_duration_minutes \in MinDurations :
          /\ call' = [op |-> "find_slots", participants |-> participants,
                      start_date |-> window[1], end_date |-> window[2],
                      timezone |-> timezone,
                      min_duration_minutes |-> min_duration_minutes]
          /\ svc' = AwaitGetSchedule(participants, window[1], window[2], timezone)
    /\ UNCHANGED <<calculator, ret, locals, tasks>>

\* get_schedule returns its mapping: fetch_busy_times normalises it and
\* returns; find_slots goes on into calculate_slots and returns or raises what
\* the calculator does.
GetScheduleReturns ==
    /\ svc.pc = "await_get_schedule"
    /\ \E schedule \in Schedules :
          \E busy_times \in {ensure_busy_time_entries(svc.participant_list, schedule)} :
             IF call.op = "fetch_busy_times"
             THEN /\ ret' = Return(busy_times)
                  /\ svc' = [svc EXCEPT !.pc = "returned",
                                        !.schedule = Return(schedule)]
                  /\ UNCHANGED locals
             ELSE \E frame \in {find_available_slots_frame(
                                    calculator.working_hours, call.start_date,
                                    call.end_date, busy_times,
                                    call.min_duration_minutes)} :
                     /\ ret' = frame.outcome
                     /\ locals' = LocalsOf(frame)
                     /\ svc' = [svc EXCEPT
                                   !.pc = IF frame.outcome = ValueError
                                          THEN "raised" ELSE "returned",
                                   !.schedule = Return(schedule),
                                   !.calculator_calls =
                                       Append(@, [start_date |-> call.start_date,
                                                  end_date |-> call.end_date,
                                                  busy_times |-> busy_times,
                                                  min_duration_minutes |->
                                                      call.min_duration_minutes])]
    /\ UNCHANGED <<calculator, call, tasks>>

\* get_schedule raises and the service swallows it, answering with an empty list.
GetScheduleRaises_Masked ==
    /\ svc.pc = "await_get_schedule"
    /\ ret' = Return(<<>>)
    /\ svc' = [svc EXCEPT !.pc = "returned", !.schedule = CalendarAPIError]
    /\ UNCHANGED <<calculator, call, locals, tasks>>

\* get_schedule raises and the service asks the collaborator once more.
GetScheduleRaises_Retried ==
    /\ svc.pc = "await_get_schedule"
    /\ Len(svc.get_schedule_calls) < 3
    /\ svc' = [svc EXCEPT !.get_schedule_calls = Append(@, @[1])]
    /\ UNCHANGED <<calculator, call, ret, locals, tasks>>

\* get_schedule raises: the exception leaves fetch_busy_times and find_slots.
GetScheduleRaises ==
    /\ svc.pc = "await_get_schedule"
    /\ ret' = CalendarAPIError
    /\ svc' = [svc EXCEPT !.pc = "raised", !.schedule = CalendarAPIError]
    /\ UNCHANGED <<calculator, call, locals, tasks>>

InitService ==
    /\ calculator \in {SlotCalculator(wh) : wh \in CalcPolicies}
    /\ call = NoCall
    /\ ret = None
    /\ locals = NoLocals
    /\ svc = NoService
    /\ tasks = <<>>

NextService == FetchBusyTimes \/ FindSlots \/ GetScheduleReturns \/ GetScheduleRaises

SpecService == InitService /\ [][NextService]_vars

(***************************************************************************)
(* Several calls on one SlotCalculator, one after another                  *)
(***************************************************************************)
\* Up to MaxCalls calls are made on the calculator.
MaxCalls == 3

\* Monday 00:00 - 17:00, and Monday 12:00 - 12:00
RepeatWindows == {<<0, 61200>>, <<43200, 43200>>}

\* a busy 10:00 - 12:00; b busy 12:00 - 14:00; a free and b busy 09:59:30 - 11:00
RepeatMaps ==
    { <<[key |-> "a", value |-> <<TimeRange(36000, 43200)>>]>>,
      <<[key |-> "b", value |-> <<TimeRange(43200, 50400)>>]>>,
      <<[key |-> "a", value |-> <<>>],
        [key |-> "b", value |-> <<TimeRange(35970, 39600)>>]>> }

\* what a finished call leaves in the record of calls
FinishedCall(working_hours, arguments, outcome) ==
    [op |-> "find_available_slots", working_hours |-> working_hours,
     start_date |-> arguments.start_date, end_date |-> arguments.end_date,
     busy_times |-> arguments.busy_times,
     min_duration_minutes |-> arguments.min_duration_minutes,
     ret |-> outcome]

\* find_available_slots on a calculator that keeps the participants of its
\* previous call and searches for them as well.
FindAvailableSlotsAgain_KeepingParticipants ==
    /\ Len(tasks) < MaxCalls
    /\ \E window \in RepeatWindows, busy_times \in RepeatMaps,
          min_duration_minutes \in MinDurations :
          \E frame \in {find_available_slots_frame(
                            calculator.working_hours, window[1], window[2],
                            IF tasks = <<>> THEN busy_times
                            ELSE additional_loop(tasks[Len(tasks)].busy_times,
                                                 1, busy_times),
                            min_duration_minutes)} :
             /\ call' = [op |-> "find_available_slots",
                         start_date |-> window[1], end_date |-> window[2],
                         busy_times |-> busy_times,
                         min_duration_minutes |-> min_duration_minutes]
             /\ ret' = frame.outcome
             /\ locals' = LocalsOf(frame)
             /\ tasks' = Append(tasks, FinishedCall(calculator.working_hours,
                                                   call', frame.outcome))
    /\ UNCHANGED <<calculator, svc>>

\* calculator.find_available_slots(...), after any earlier calls: the method
\* reads self.working_hours and its arguments and assigns no attribute.
FindAvailableSlotsAgain ==
    /\ Len(tasks) < MaxCalls
    /\ \E window \in RepeatWindows, busy_times \in RepeatMaps,
          min_duration_minutes \in MinDurations :
          \E frame \in {find_available_slots_frame(
                            calculator.working_hours, window[1], window[2],
                            busy_times, min_duration_minutes)} :
             /\ call' = [op |-> "find_available_slots",
                         start_date |-> window[1], end_date |-> window[2],
                         busy_times |-> busy_times,
                         min_duration_minutes |-> min_duration_minutes]
             /\ ret' = frame.outcome
             /\ locals' = LocalsOf(frame)
             /\ tasks' = Append(tasks, FinishedCall(calculator.working_hours,
                                                   call', frame.outcome))
    /\ UNCHANGED <<calculator, svc>>

NextRepeat == FindAvailableSlotsAgain

SpecRepeat == InitCalc /\ [][NextRepeat]_vars

(***************************************************************************)
(* Several find_slots coroutines on one TimeslotFinderService              *)
(***************************************************************************)
\* Up to MaxTasks find_slots coroutines run side by side.
MaxTasks == 2

TaskRequests == {<<"a">>, <<"b">>, <<"a", "b">>}

\* Monday 00:00 - 17:00, Monday 12:00 - Tuesday 12:00
TaskWindows == {<<0, 61200>>, <<43200, 129600>>}

\* what the collaborator may answer: nothing, a busy 10:00 - 12:00, or
\* b busy Monday 12:00 - 14:00 and c busy 09:59:30 - 11:00
TaskSchedules ==
    { <<>>,
      <<[key |-> "a", value |-> <<TimeRange(36000, 43200)>>]>>,
      <<[key |-> "b", value |-> <<TimeRange(43200, 50400)>>],
        [key |-> "c", value |-> <<TimeRange(35970, 39600)>>]>> }

TaskMinDurations == {60}

\* await service.find_slots(...) by one more caller: the coroutine runs up to
\* the await of get_schedule; its arguments are its own local variables
StartFindSlots ==
    /\ Len(tasks) < MaxTasks
    /\ \E participants \in TaskRequests, window \in TaskWindows,
          timezone \in Timezones, min_duration_minutes \in TaskMinDurations :
          tasks' = Append(tasks,
                          [op |-> "find_slots", pc |-> "await_get_schedule",
                           participants |-> participants,
                           start_date |-> window[1], end_date |-> window[2],
                           timezone |-> timezone,
                           min_duration_minutes |-> min_duration_minutes,
                           schedule |-> None, busy_times |-> None,
                           ret |-> None])
    /\ UNCHANGED <<calculator, call, ret, locals, svc>>

\* coroutine i after its await, from the participant list `participant_list`:
\* normalisation, calculate_slots, and the return or the calculator's error
ResumedWith(i, participant_list, schedule) ==
    LET busy_times == ensure_busy_time_entries(participant_list, schedule)
        outcome == find_available_slots(
                       calculator.working_hours, tasks[i].start_date,
                       tasks[i].end_date, busy_times,
                       tasks[i].min_duration_minutes)
    IN [tasks EXCEPT ![i] = [@ EXCEPT !.pc = IF outcome = ValueError
                                            THEN "raised" ELSE "returned",
                                      !.schedule = Return(schedule),
                                      !.busy_times = Return(busy_times),
                                      !.ret = outcome]]

\* A service that keeps the participant list in an attribute, written before
\* the await and read after it: a coroutine resumes with the list of the
\* coroutine started last.
ResumeFindSlots_SharedParticipants ==
    /\ \E i \in 1..Len(tasks), schedule \in TaskSchedules :
          /\ tasks[i].pc = "await_get_schedule"
          /\ tasks' = ResumedWith(i, tasks[Len(tasks)].participants, schedule)
    /\ UNCHANGED <<calculator, call, ret, locals, svc>>

\* get_schedule returns to one of the waiting coroutines, in any order
ResumeFindSlots ==
    /\ \E i \in 1..Len(tasks), schedule \in TaskSchedules :
          /\ tasks[i].pc = "await_get_schedule"
          /\ tasks' = ResumedWith(i, tasks[i].participants, schedule)
    /\ UNCHANGED <<calculator, call, ret, locals, svc>>

\* get_schedule raises in one of the waiting coroutines
ResumeFindSlotsRaising ==
    /\ \E i \in 1..Len(tasks) :
          /\ tasks[i].pc = "await_get_schedule"
          /\ tasks' = [tasks EXCEPT ![i] = [@ EXCEPT !.pc = "raised",
                                                     !.schedule = CalendarAPIError,
                                                     !.ret = CalendarAPIError]]
    /\ UNCHANGED <<calculator, call, ret, locals, svc>>

NextConcurrent == StartFindSlots \/ ResumeFindSlots \/ ResumeFindSlotsRaising

SpecConcurrent == InitService /\ [][NextConcurrent]_vars

(***************************************************************************)
(* The arguments after a call.  A list and a dict are objects the caller   *)
(* still holds when the call is over; these operators give their contents  *)
(* then, statement by statement of the callee.                             *)
(***************************************************************************)

\* The list after `busy_ranges.sort(key=...)`, which sorts the list itself.
busy_ranges_after_sorted_InPlace(busy_ranges) == sorted_by_start(busy_ranges)

\* The list after `sorted(busy_ranges, key=lambda r: r.start)`: sorted builds a
\* new list and leaves its argument as it is.
busy_ranges_after_sorted(busy_ranges) == busy_ranges

\* busy_times after find_available_slots: keys() and busy_times[participant]
\* only read the dict; each list is handed to _invert_busy_to_free, reached
\* when there are participants and working blocks, which sorts it (and, in
\* _subtract_busy_from_block, a list of its own making).
busy_times_after_find_available_slots(working_hours, start_date, end_date, busy_times) ==
    LET working_blocks == get_working_blocks(working_hours, start_date, end_date)
    IN IF busy_times = <<>> \/ working_blocks = ValueError THEN busy_times
       ELSE IF working_blocks.value = <<>> THEN busy_times
       ELSE [i \in 1..Len(busy_times) |->
                [key |-> busy_times[i].key,
                 value |-> busy_ranges_after_sorted(busy_times[i].value)]]

\* The collaborator's mapping after _ensure_busy_time_entries: the entries go
\* into the new dict `normalized`; busy_times is read with get() and items().
busy_times_after_ensure_busy_time_entries(participants, busy_times) == busy_times

\* find_available_slots, with the caller's map looked at again afterwards
FindAvailableSlotsThenInputs ==
    /\ Idle
    /\ \E start_date \in WindowInstants, end_date \in WindowInstants,
          busy_times \in BusyMaps, min_duration_minutes \in MinDurations :
          /\ start_date <= end_date
          /\ \E frame \in {find_available_slots_frame(
                               calculator.working_hours, start_date, end_date,
                               busy_times, min_duration_minutes)} :
                /\ call' = [op |-> "find_available_slots",
                            start_date |-> start_date, end_date |-> end_date,
                            busy_times |-> busy_times,
                            min_duration_minutes |-> min_duration_minutes,
                            busy_times_after |->
                                busy_times_after_find_available_slots(
                                    calculator.working_hours, start_date,
                                    end_date, busy_times)]
                /\ ret' = frame.outcome
                /\ locals' = LocalsOf(frame)
    /\ UNCHANGED <<calculator, svc, tasks>>

\* await service.fetch_busy_times(...) answered by get_schedule, with the
\* mapping get_schedule returned looked at again afterwards
FetchBusyTimesThenSchedule ==
    /\ Idle
    /\ \E participants \in Requests, window \in ServiceWindows,
          timezone \in Timezones, schedule \in Schedules :
          /\ call' = [op |-> "fetch_busy_times", participants |-> participants,
                      start_date |-> window[1], end_date |-> window[2],
                      timezone |-> timezone,
                      schedule |-> schedule,
                      schedule_after |->
                          busy_times_after_ensure_busy_time_entries(
                              participants, schedule)]
          /\ ret' = Return(ensure_busy_time_entries(participants, schedule))
    /\ UNCHANGED <<calculator, locals, svc, tasks>>

NextInputs == FindAvailableSlotsThenInputs \/ FetchBusyTimesThenSchedule

SpecInputs == InitCalc /\ [][NextInputs]_vars

(***************************************************************************)
(* The find command of the command line (src/src/cli/app.py): it asks the  *)
(* Graph client itself, builds the policy from the configuration and calls *)
(* the calculator on the mapping the client returned.                      *)
(***************************************************************************)

\* `raise typer.Exit(1)` of the two except clauses of find
Exit == [exception |-> "Exit", code |-> 1]

\* The mapping find hands to the calculator: the one get_schedule returned.
CliBusyTimes(participant_emails, busy_times) == busy_times

\* find with resolved participant e-mails: get_schedule answers with the
\* entries of the response (or raises), the policy is built from the
\* configuration, the calculator runs; every exception ends in Exit(1).
CliFind ==
    /\ Idle
    /\ \E participant_emails \in Requests, window \in ServiceWindows,
          tz \in Timezones, min_duration \in MinDurations, wh \in CalcPolicies :
          /\ calculator' = SlotCalculator(wh)
          /\ \/ /\ call' = [op |-> "find", participant_emails |-> participant_emails,
                             start_date |-> window[1], end_date |-> window[2],
                             timezone |-> tz, min_duration |-> min_duration,
                             busy_times |-> CalendarAPIError]
                /\ ret' = Exit
                /\ locals' = NoLocals
             \/ \E schedule \in Schedules :
                   \E busy_times \in {CliBusyTimes(participant_emails, schedule)} :
                      \E frame \in {find_available_slots_frame(
                                         wh, window[1], window[2], busy_times,
                                         min_duration)} :
                         /\ call' = [op |-> "find",
                                     participant_emails |-> participant_emails,
                                     start_date |-> window[1],
                                     end_date |-> window[2],
                                     timezone |-> tz, min_duration |-> min_duration,
                                     busy_times |-> Return(busy_times)]
                         /\ ret' = IF frame.outcome = ValueError THEN Exit
                                   ELSE frame.outcome
                         /\ locals' = LocalsOf(frame)
    /\ UNCHANGED <<svc, tasks>>

NextCli == CliFind \/ FindSlots \/ GetScheduleReturns \/ GetScheduleRaises

SpecCli == InitService /\ [][NextCli]_vars

(***************************************************************************)
(* Vocabulary of the properties                                            *)
(***************************************************************************)
\* seconds after midnight of a time of day
SecondsOf(t) == (t.hour * 60 + t.minute) * SecondsPerMinute

PolicyOrdered ==
    TimeBefore(calculator.working_hours.start_time,
               calculator.working_hours.end_time)

\* the time ranges of a returned slot list, in order
RangesOf(slots) == [i \in 1..Len(slots) |-> slots[i].time_range]

SetOf(seq) == {seq[i] : i \in 1..Len(seq)}

\* all busy intervals of a busy-time map
AllBusy(busy_times) ==
    UNION {SetOf(busy_times[p].value) : p \in 1..Len(busy_times)}

WindowDays(start_date, end_date) ==
    (start_date \div SecondsPerDay)..(end_date \div SecondsPerDay)

\* [s, e) is common free time: it lies in the window, in the working hours of
\* one working day, and meets no busy interval [start, end) of any participant.
CommonFree(wh, start_date, end_date, busy_times, s, e) ==
    /\ s < e
    /\ start_date <= s /\ e <= end_date
    /\ \E d \in WindowDays(start_date, end_date) :
          /\ (d % 7) \notin wh.exclude_weekdays
          /\ d * SecondsPerDay + SecondsOf(wh.start_time) <= s
          /\ e <= d * SecondsPerDay + SecondsOf(wh.end_time)
    /\ \A b \in AllBusy(busy_times) : e <= b.start \/ b.end <= s

\* every instant at which common free time can begin or end
Endpoints(wh, start_date, end_date, busy_times) ==
    {start_date, end_date}
    \cup {d * SecondsPerDay + SecondsOf(wh.start_time) :
            d \in WindowDays(start_date, end_date)}
    \cup {d * SecondsPerDay + SecondsOf(wh.end_time) :
            d \in WindowDays(start_date, end_date)}
    \cup {b.start : b \in AllBusy(busy_times)}
    \cup {b.end : b \in AllBusy(busy_times)}

\* the maximal intervals of common free time: free, with no free time
\* directly before or directly after
MaximalCommonFree(wh, start_date, end_date, busy_times) ==
    LET E == Endpoints(wh, start_date, end_date, busy_times)
        Free(s, e) == CommonFree(wh, start_date, end_date, busy_times, s, e)
    IN {[start |-> x[1], end |-> x[2]] :
          x \in {y \in E \X E :
                   /\ Free(y[1], y[2])
                   /\ ~\E before \in E : before < y[1] /\ Free(before, y[1])
                   /\ ~\E after \in E : after > y[2] /\ Free(y[2], after)}}

\* the maximal parts of a block that no interval of `busy` covers: uncovered,
\* with covered time or the block's bound directly before and directly after
MaximalUncovered(block, busy) ==
    LET E == {block.start, block.end}
             \cup {t \in {b.start : b \in busy} \cup {b.end : b \in busy} :
                      block.start < t /\ t < block.end}
        Free(s, e) == s < e /\ \A b \in busy : e <= b.start \/ b.end <= s
    IN {[start |-> x[1], end |-> x[2]] :
          x \in {y \in E \X E :
                   /\ Free(y[1], y[2])
                   /\ ~\E before \in E : before < y[1] /\ Free(before, y[1])
                   /\ ~\E after \in E : after > y[2] /\ Free(y[2], after)}}

\* the working hours of each working day of the window, cut to the window,
\* where something of positive length is left
ClippedWorkingRanges(wh, start_date, end_date) ==
    {r \in {[start |-> Max(d * SecondsPerDay + SecondsOf(wh.start_time), start_date),
             end |-> Min(d * SecondsPerDay + SecondsOf(wh.end_time), end_date)] :
                d \in {day \in WindowDays(start_date, end_date) :
                          (day % 7) \notin wh.exclude_weekdays}} :
        r.start < r.end}

\* minimum durations below the ones searched with
SmallerDurations == {0, 1, 14, 15, 16, 29, 30, 59}

\* the orders in which n map entries can be given
Orders(n) == {f \in [1..n -> 1..n] : \A i, j \in 1..n : f[i] = f[j] => i = j}

\* a busy-time map with its entries in another order
Reordered(busy_times, f) == [i \in 1..Len(busy_times) |-> busy_times[f[i]]]

\* a list without its entries i and j
Without(list, i, j) ==
    [k \in 1..(Len(list) - 2) |->
        LET a == Min(i, j)
            b == Max(i, j)
        IN IF k < a THEN list[k] ELSE IF k + 1 < b THEN list[k + 1] ELSE list[k + 2]]

\* The lists that say the same as a busy list: its intervals in another order,
\* one of them given twice (at the end or at the front), or two that overlap
\* or touch replaced by the one interval they cover together.
SameBusy(list) ==
    {[i \in 1..Len(list) |-> list[f[i]]] : f \in Orders(Len(list))}
    \cup {Append(list, list[i]) : i \in 1..Len(list)}
    \cup {<<list[i]>> \o list : i \in 1..Len(list)}
    \cup {<<TimeRange(Min(list[ij[1]].start, list[ij[2]].start),
                       Max(list[ij[1]].end, list[ij[2]].end))>>
            \o Without(list, ij[1], ij[2]) :
           ij \in {p \in (1..Len(list)) \X (1..Len(list)) :
                     /\ p[1] < p[2]
                     /\ list[p[1]].start <= list[p[2]].end
                     /\ list[p[2]].start <= list[p[1]].end}}

\* instant t lies in one of the ranges [start, end)
Covered(ranges, t) == \E r \in ranges : r.start <= t /\ t < r.end

RECURSIVE Distinct(_)
\* a sequence without its repetitions, first occurrences kept
Distinct(seq) ==
    IF seq = <<>> THEN <<>>
    ELSE LET front == Distinct(SubSeq(seq, 1, Len(seq) - 1))
             x == seq[Len(seq)]
         IN IF x \in SetOf(front) THEN front ELSE Append(front, x)

\* the collaborator's response with an explicit empty busy list for every
\* requested participant it omits
WithExplicitEmpty(participants, schedule) ==
    LET omitted == SelectSeq(Distinct(participants),
                             LAMBDA p : ~dict_has(schedule, p))
    IN schedule \o [i \in 1..Len(omitted) |-> [key |-> omitted[i], value |-> <<>>]]

\* every TimeRange held by the state: arguments, locals and results
RangesInState ==
    (IF call.op \in {"overlaps", "intersect"} THEN {call.self, call.other} ELSE {})
    \cup (IF call.op = "duration_minutes" THEN {call.self} ELSE {})
    \cup (IF call.op \in {"TimeRange", "intersect", "get_working_hours_for_day"}
             /\ ret \notin {None, ValueError}
          THEN {ret} ELSE {})
    \cup (IF call.op = "find_available_slots" THEN AllBusy(call.busy_times) ELSE {})
    \cup (IF call.op \in {"find_available_slots", "find_slots"}
             /\ ret \notin {None, ValueError, CalendarAPIError}
          THEN SetOf(RangesOf(ret.value)) ELSE {})
    \cup SetOf(locals.working_blocks)
    \cup AllBusy(locals.participant_free_times)
    \cup SetOf(locals.common_free_times)

(***************************************************************************)
(* Properties                                                              *)
(***************************************************************************)
\* C1: for a window with start_date < end_date, working hours with
\* start_time < end_time and a non-empty busy-time map, find_available_slots
\* returns exactly the maximal intervals of common free time that last at
\* least min_duration_minutes: none is missing, none is returned twice, and
\* nothing else is returned.
C1_SlotsAreMaximalCommonFree ==
    (/\ call.op = "find_available_slots"
     /\ call.start_date < call.end_date
     /\ PolicyOrdered
     /\ call.busy_times # <<>>)
    => /\ ret # ValueError
       /\ LET expected ==
                  {r \in MaximalCommonFree(calculator.working_hours,
                                           call.start_date, call.end_date,
                                           call.busy_times) :
                      r.end - r.start
                          >= call.min_duration_minutes * SecondsPerMinute}
          IN /\ SetOf(RangesOf(ret.value)) = expected
             /\ Len(ret.value) = Cardinality(expected)

\* C1 witness: two participants with different busy intervals, each strictly
\* inside a working block, and two or more common slots found.
C1_Witness ==
    /\ call.op = "find_available_slots"
    /\ call.start_date < call.end_date
    /\ PolicyOrdered
    /\ Len(call.busy_times) = 2
    /\ call.busy_times[1].value # call.busy_times[2].value
    /\ \A p \in 1..2 :
          \E b \in SetOf(call.busy_times[p].value) :
             \E block \in SetOf(locals.working_blocks) :
                block.start < b.start /\ b.end < block.end
    /\ ret # ValueError
    /\ Len(ret.value) >= 2

\* C2: for start_date <= end_date and working hours with
\* start_time < end_time, find_available_slots returns a list and never
\* fails with a range-construction error.
C2_NeverFailsOnValidWindow ==
    (/\ call.op = "find_available_slots"
     /\ call.start_date <= call.end_date
     /\ PolicyOrdered)
    => ret # ValueError

\* C3: after fetch_busy_times returns, every requested participant is a key
\* of the returned map: with an empty list when the collaborator's response
\* omits the participant, with the response's own list otherwise.
C3_RequestedParticipantsArePresent ==
    (call.op = "fetch_busy_times" /\ svc.pc = "returned")
    => \A i \in 1..Len(call.participants) :
          LET p == call.participants[i]
              entries == {k \in 1..Len(ret.value) : ret.value[k].key = p}
              answered == {k \in 1..Len(svc.schedule.value) :
                               svc.schedule.value[k].key = p}
          IN /\ Cardinality(entries) = 1
             /\ \A k \in entries :
                   /\ answered = {} => ret.value[k].value = <<>>
                   /\ \A a \in answered :
                         ret.value[k].value = svc.schedule.value[a].value

\* C3 witness: a requested participant is missing from the response and is
\* returned with an empty list, next to one that the response does hold.
C3_Witness ==
    /\ call.op = "fetch_busy_times"
    /\ svc.pc = "returned"
    /\ call.participants = <<"a", "b">>
    /\ Len(svc.schedule.value) = 1
    /\ svc.schedule.value[1].key = "a"
    /\ svc.schedule.value[1].value # <<>>
    /\ ret.value = <<svc.schedule.value[1], [key |-> "b", value |-> <<>>]>>

\* C4: find_slots treats a participant the response omits as free: its
\* outcome is that of find_available_slots on the response with an explicit
\* empty list for that participant, and a response omitting everybody gives
\* the working blocks of sufficient duration.
C4_OmittedParticipantIsFree ==
    (call.op = "find_slots" /\ svc.pc \in {"returned", "raised"}
     /\ svc.schedule # CalendarAPIError)
    => LET wh == calculator.working_hours
           explicit == find_available_slots(
                           wh, call.start_date, call.end_date,
                           WithExplicitEmpty(call.participants, svc.schedule.value),
                           call.min_duration_minutes)
           blocks == get_working_blocks(wh, call.start_date, call.end_date)
       IN /\ (ret = ValueError) = (explicit = ValueError)
          /\ ret # ValueError =>
                /\ RangesOf(ret.value) = RangesOf(explicit.value)
                /\ \A i \in 1..Len(ret.value) :
                      SetOf(ret.value[i].participants)
                          = SetOf(explicit.value[i].participants)
          /\ (svc.schedule.value = <<>> /\ call.participants # <<>>) =>
                /\ (ret = ValueError) = (blocks = ValueError)
                /\ ret # ValueError =>
                      RangesOf(ret.value) =
                          SelectSeq(blocks.value,
                                    LAMBDA b : b.end - b.start
                                                 >= call.min_duration_minutes
                                                    * SecondsPerMinute)

\* C4 witness: the response is empty, two participants were requested, and
\* the working block of the window is returned as the one slot.
C4_Witness ==
    /\ call.op = "find_slots"
    /\ svc.pc = "returned"
    /\ call.participants = <<"a", "b">>
    /\ svc.schedule = Return(<<>>)
    /\ Len(ret.value) = 1
    /\ ret.value[1].time_range = [start |-> 32400, end |-> 61200]

\* C5: the calculator is invoked only after get_schedule has returned the
\* whole mapping; while the request is pending nothing is computed or
\* returned; when get_schedule fails, its failure is what find_slots raises,
\* the calculator is never invoked and no slot list is returned.
C5_CalculatorOnlyAfterSchedule ==
    svc.pc # "idle"
    => /\ svc.pc = "await_get_schedule" =>
             /\ svc.calculator_calls = <<>>
             /\ ret = None
             /\ locals = NoLocals
       /\ svc.calculator_calls # <<>> =>
             /\ svc.schedule \notin {None, CalendarAPIError}
             /\ \A i \in 1..Len(svc.schedule.value) :
                   \E k \in 1..Len(svc.calculator_calls[1].busy_times) :
                      svc.calculator_calls[1].busy_times[k] = svc.schedule.value[i]
       /\ svc.schedule = CalendarAPIError =>
             /\ svc.pc = "raised"
             /\ ret = CalendarAPIError
             /\ svc.calculator_calls = <<>>
             /\ locals = NoLocals

\* C5 witness: find_slots has raised the collaborator's failure.
C5_Witness ==
    /\ call.op = "find_slots"
    /\ svc.pc = "raised"
    /\ svc.schedule = CalendarAPIError
    /\ ret = CalendarAPIError

\* C6: constructing a TimeRange fails exactly when start >= end, and every
\* TimeRange held by a reachable state - argument, working block, free range,
\* intersection or returned slot - has start < end.
C6_EveryRangeIsNonEmpty ==
    /\ call.op = "TimeRange" =>
          /\ (ret = ValueError) = (call.start >= call.end)
          /\ ret # ValueError => ret = [start |-> call.start, end |-> call.end]
    /\ \A r \in RangesInState : r.start < r.end

\* C6 witness: a construction with start = end has failed.
C6_Witness ==
    /\ call.op = "TimeRange"
    /\ call.start = call.end
    /\ ret = ValueError

\* C7: a.overlaps(b) holds iff a.start < b.end and a.end > b.start; it is
\* symmetric, and ranges that only touch at a boundary do not overlap.
C7_OverlapsStrictSymmetric ==
    call.op = "overlaps"
    => LET a == call.self
           b == call.other
       IN /\ ret = (a.start < b.end /\ a.end > b.start)
          /\ ret = overlaps(b, a)
          /\ (a.end = b.start \/ b.end = a.start) => ~ret

\* C7 witness: two ranges that touch at a boundary were compared.
C7_Witness ==
    /\ call.op = "overlaps"
    /\ call.self.end = call.other.start
    /\ ret = FALSE

\* C8: a.intersect(b) is absent iff the ranges do not overlap; otherwise it is
\* the range [max of the starts, min of the ends], non-empty, contained in
\* both, and equal to b.intersect(a).  It never raises.
C8_IntersectIsTheCommonPart ==
    call.op = "intersect"
    => LET a == call.self
           b == call.other
       IN /\ ret # ValueError
          /\ (ret = None) = ~(a.start < b.end /\ a.end > b.start)
          /\ ret = intersect(b, a)
          /\ ret # None =>
                /\ ret.start = Max(a.start, b.start)
                /\ ret.end = Min(a.end, b.end)
                /\ ret.start < ret.end
                /\ a.start <= ret.start /\ ret.end <= a.end
                /\ b.start <= ret.start /\ ret.end <= b.end

\* C8 witness: a proper intersection, shorter than both ranges.
C8_Witness ==
    /\ call.op = "intersect"
    /\ ret \notin {None, ValueError}
    /\ ret # call.self
    /\ ret # call.other

\* C9: duration_minutes is the number of whole minutes of end - start,
\* truncated: m minutes and s seconds, 0 <= s < 60, give m (29 min 59 s give
\* 29, 30 min 59 s give 30, 8 hours give 480).
C9_DurationTruncates ==
    call.op = "duration_minutes"
    => LET seconds == call.self.end - call.self.start
       IN /\ ret * SecondsPerMinute <= seconds
          /\ seconds < (ret + 1) * SecondsPerMinute
          /\ seconds = 1799 => ret = 29
          /\ seconds = 1859 => ret = 30
          /\ seconds = 28800 => ret = 480

\* C9 witness: 29 minutes 59 seconds were measured as 29 minutes.
C9_Witness ==
    /\ call.op = "duration_minutes"
    /\ call.self.end - call.self.start = 1799
    /\ ret = 29

\* C10: get_working_hours_for_day(date) is absent iff the weekday of date is
\* excluded; otherwise it is the TimeRange from start_time to end_time on the
\* calendar date of the input.
C10_WorkingRangeOnTheDay ==
    call.op = "get_working_hours_for_day"
    => LET wh == calculator.working_hours
           day == call.date \div SecondsPerDay
       IN /\ (ret = None) = ((day % 7) \in wh.exclude_weekdays)
          /\ ret # None =>
                ret = [start |-> day * SecondsPerDay + SecondsOf(wh.start_time),
                       end |-> day * SecondsPerDay + SecondsOf(wh.end_time)]

\* The same statement for the policies whose start_time is before end_time.
WorkingRangeOnTheDayIfOrdered == PolicyOrdered => C10_WorkingRangeOnTheDay

\* C11: every WorkingHours policy object that exists - the calculator's
\* policy, or one just constructed - has start_time < end_time.
C11_EveryPolicyIsOrdered ==
    /\ PolicyOrdered
    /\ (call.op \in {"WorkingHours", "DefaultsConfig"} /\ ret # ValueError)
          => TimeBefore(ret.start_time, ret.end_time)

\* What the code does enforce: a policy built from validated defaults is
\* ordered, and defaults with end_hour <= start_hour are rejected.
PolicyFromDefaultsIsOrdered ==
    call.op = "DefaultsConfig"
    => /\ (ret = ValueError) =
             (call.start_hour > 23 \/ call.end_hour > 23
              \/ call.end_hour <= call.start_hour)
       /\ ret # ValueError => TimeBefore(ret.start_time, ret.end_time)

\* C12: _get_working_blocks yields, in ascending day order, exactly one block
\* for each working day of the window whose working range shares a part of
\* positive length with [start_date, end_date], and each block is that range
\* cut to the window.
C12_BlocksAreClippedWorkingRanges ==
    call.op = "_get_working_blocks"
    => /\ ret # ValueError
       /\ LET wh == calculator.working_hours
              Clipped(d) ==
                  [start |-> Max(d * SecondsPerDay + SecondsOf(wh.start_time),
                                 call.start_date),
                   end |-> Min(d * SecondsPerDay + SecondsOf(wh.end_time),
                               call.end_date)]
              days == {d \in WindowDays(call.start_date, call.end_date) :
                          /\ (d % 7) \notin wh.exclude_weekdays
                          /\ Clipped(d).start < Clipped(d).end}
          IN /\ SetOf(ret.value) = {Clipped(d) : d \in days}
             /\ Len(ret.value) = Cardinality(days)
             /\ \A i \in 1..(Len(ret.value) - 1) :
                   ret.value[i].end <= ret.value[i + 1].start

\* The same statement for the windows of positive length.
BlocksAreClippedIfWindowNotEmpty ==
    (call.op = "_get_working_blocks" /\ call.start_date < call.end_date)
    => C12_BlocksAreClippedWorkingRanges

\* A window over two working days that cuts the first day's range and drops
\* nothing of the second.
BlocksClippedWitness ==
    /\ call.op = "_get_working_blocks"
    /\ ret # ValueError
    /\ Len(ret.value) = 2
    /\ ret.value[1].start = call.start_date

\* C13: for each participant, the free ranges computed from the working
\* blocks are, in ascending order, exactly the maximal parts of each block
\* that none of the participant's busy intervals covers: pairwise disjoint,
\* inside a block, meeting no busy interval, and leaving no uncovered time of
\* a block out - whatever the order, overlap or extent of the busy intervals.
C13_FreeRangesAreUncoveredParts ==
    (call.op = "find_available_slots" /\ locals.participant_free_times # <<>>)
    => /\ Len(locals.participant_free_times) = Len(call.busy_times)
       /\ \A p \in 1..Len(call.busy_times) :
             LET free == locals.participant_free_times[p].value
                 busy == SetOf(call.busy_times[p].value)
                 blocks == SetOf(locals.working_blocks)
                 expected == UNION {MaximalUncovered(block, busy) : block \in blocks}
             IN /\ locals.participant_free_times[p].key = call.busy_times[p].key
                /\ SetOf(free) = expected
                /\ Len(free) = Cardinality(expected)
                /\ \A i \in 1..(Len(free) - 1) : free[i].end <= free[i + 1].start
                /\ \A i \in 1..Len(free) :
                      /\ \E block \in blocks :
                            block.start <= free[i].start /\ free[i].end <= block.end
                      /\ \A b \in busy :
                            free[i].end <= b.start \/ b.end <= free[i].start

\* C13 witness: a participant's two busy intervals are given out of order and
\* overlap each other, and two free ranges are left of the block around them.
C13_Witness ==
    /\ call.op = "find_available_slots"
    /\ Len(locals.working_blocks) = 1
    /\ \E p \in 1..Len(call.busy_times) :
          LET busy == call.busy_times[p].value
          IN /\ Len(busy) = 2
             /\ busy[2].start < busy[1].start
             /\ busy[1].start < busy[2].end
             /\ Len(locals.participant_free_times[p].value) = 2

\* C14: every range find_available_slots works with after the working blocks
\* - each participant's free ranges, the intersections before merging, the
\* common free ranges after merging, and the returned slots - lies inside
\* the working hours of one single working day, cut to the window: none spans
\* the gap between two blocks and none starts or ends on an excluded weekday.
C14_SlotsStayInsideOneBlock ==
    (call.op = "find_available_slots" /\ ret # ValueError)
    => LET wh == calculator.working_hours
           pft == locals.participant_free_times
           before_merge ==
               IF Len(pft) < 2 THEN {}
               ELSE SetOf(intersections_loop(pft[1].value, pft[2].value,
                                             0, <<>>).value)
           InOneBlock(r) ==
               \E d \in WindowDays(call.start_date, call.end_date) :
                  /\ (d % 7) \notin wh.exclude_weekdays
                  /\ Max(d * SecondsPerDay + SecondsOf(wh.start_time),
                         call.start_date) <= r.start
                  /\ r.end <= Min(d * SecondsPerDay + SecondsOf(wh.end_time),
                                  call.end_date)
           OnWorkingDay(t) ==
               ((t \div SecondsPerDay) % 7) \notin wh.exclude_weekdays
       IN \A r \in AllBusy(pft) \cup before_merge
                   \cup SetOf(locals.common_free_times)
                   \cup SetOf(RangesOf(ret.value)) :
             InOneBlock(r) /\ OnWorkingDay(r.start) /\ OnWorkingDay(r.end)

\* C14 witness: around an excluded weekend, with a participant busy from
\* Friday afternoon to Monday morning, a slot is returned on the Friday and
\* another on the Monday.
C14_Witness ==
    /\ call.op = "find_available_slots"
    /\ calculator.working_hours.exclude_weekdays = {5, 6}
    /\ Len(call.busy_times) >= 2
    /\ \E b \in AllBusy(call.busy_times) :
          \E i \in 1..(Len(locals.working_blocks) - 1) :
             /\ b.start < locals.working_blocks[i].end
             /\ locals.working_blocks[i + 1].start < b.end
    /\ ret # ValueError
    /\ Len(ret.value) >= 2
    /\ ret.value[1].time_range.end <= locals.working_blocks[1].end
    /\ locals.working_blocks[Len(locals.working_blocks)].start
          <= ret.value[Len(ret.value)].time_range.start

\* C15: when the busy-time map is not empty and nobody in it has a busy
\* interval, find_available_slots returns, in ascending order, one slot for
\* each working block lasting at least min_duration_minutes and nothing
\* else, each slot being its block: one 480-minute slot for one working day
\* 09:00 - 17:00, two slots for Friday through Monday with the weekend
\* excluded.
C15_NoBusyGivesTheBlocks ==
    (/\ call.op = "find_available_slots"
     /\ call.busy_times # <<>>
     /\ AllBusy(call.busy_times) = {})
    => /\ ret # ValueError
       /\ LET wh == calculator.working_hours
              expected ==
                  {r \in ClippedWorkingRanges(wh, call.start_date, call.end_date) :
                      r.end - r.start
                          >= call.min_duration_minutes * SecondsPerMinute}
              ranges == RangesOf(ret.value)
          IN /\ SetOf(ranges) = expected
             /\ Len(ranges) = Cardinality(expected)
             /\ \A i \in 1..(Len(ranges) - 1) : ranges[i].end < ranges[i + 1].start
             /\ (call.start_date = 345600 /\ call.end_date = 431940) =>
                   /\ Len(ranges) = 1
                   /\ ranges[1].end - ranges[1].start = 480 * SecondsPerMinute
             /\ (/\ call.start_date = 345600 /\ call.end_date = 691140
                 /\ wh.exclude_weekdays = {5, 6}) => Len(ranges) = 2

\* The same statement for the windows of positive length.
NoBusyGivesTheBlocksIfWindowNotEmpty ==
    (call.op = "find_available_slots" /\ call.start_date < call.end_date)
    => C15_NoBusyGivesTheBlocks

\* Friday through Monday, weekend excluded, nobody busy: two slots.
NoBusyOverWeekendWitness ==
    /\ call.op = "find_available_slots"
    /\ call.start_date = 345600 /\ call.end_date = 691140
    /\ calculator.working_hours.exclude_weekdays = {5, 6}
    /\ Len(call.busy_times) = 3
    /\ AllBusy(call.busy_times) = {}
    /\ ret # ValueError
    /\ Len(ret.value) = 2

\* C16: the returned slots are, in order, exactly the common free intervals
\* lasting at least min_duration_minutes - one lasting exactly that long is
\* returned, a shorter one is not (a 15-minute gap is dropped for a minimum
\* of 30 and kept for a minimum of 15) - and the filter is applied once, to
\* the merged common intervals: those still hold every maximal interval of
\* common free time, however short.
C16_FilterByMinimumDuration ==
    (call.op = "find_available_slots" /\ ret # ValueError)
    => LET common == locals.common_free_times
           Long(tr) ==
               tr.end - tr.start >= call.min_duration_minutes * SecondsPerMinute
       IN /\ RangesOf(ret.value) = SelectSeq(common, Long)
          /\ locals.working_blocks # <<>> =>
                SetOf(common) = MaximalCommonFree(calculator.working_hours,
                                                  call.start_date, call.end_date,
                                                  call.busy_times)
          /\ \A i \in 1..Len(common) :
                common[i].end - common[i].start = 15 * SecondsPerMinute
                => ((common[i] \in SetOf(RangesOf(ret.value)))
                       = (call.min_duration_minutes <= 15))

\* C16 witness: with a minimum of 60 minutes, a common free interval of
\* exactly 60 minutes is returned and one of 15 minutes is dropped.
C16_Witness ==
    /\ call.op = "find_available_slots"
    /\ call.min_duration_minutes = 60
    /\ ret # ValueError
    /\ \E i \in 1..Len(ret.value) :
          ret.value[i].time_range.end - ret.value[i].time_range.start
              = 60 * SecondsPerMinute
    /\ \E r \in SetOf(locals.common_free_times) :
          /\ r.end - r.start = 15 * SecondsPerMinute
          /\ r \notin SetOf(RangesOf(ret.value))

\* C17: with the window, the working hours and the busy-time map unchanged,
\* every slot returned for a minimum duration is also returned for each
\* smaller minimum, and in the same relative order: the result is the result
\* for the smaller minimum with some slots left out.
C17_SmallerMinimumKeepsSlots ==
    (call.op = "find_available_slots" /\ ret # ValueError)
    => \A d1 \in {d \in SmallerDurations : d < call.min_duration_minutes} :
          LET smaller == find_available_slots(
                             calculator.working_hours, call.start_date,
                             call.end_date, call.busy_times, d1)
          IN /\ smaller # ValueError
             /\ ret.value = SelectSeq(smaller.value,
                                      LAMBDA slot : slot \in SetOf(ret.value))

\* C17 witness: a minimum of 60 minutes returns two or more slots, and a
\* minimum of 15 minutes returns those and more.
C17_Witness ==
    /\ call.op = "find_available_slots"
    /\ call.min_duration_minutes = 60
    /\ ret # ValueError
    /\ Len(ret.value) >= 2
    /\ Len(find_available_slots(calculator.working_hours, call.start_date,
                                call.end_date, call.busy_times, 15).value)
          > Len(ret.value)

\* C18: when the window has working blocks and the busy intervals of some
\* participant, at whatever position in the map, cover every one of them,
\* that participant has no free range and find_available_slots returns the
\* empty list.
C18_FullyBusyParticipantGivesNothing ==
    call.op = "find_available_slots"
    => LET blocks == ClippedWorkingRanges(calculator.working_hours,
                                          call.start_date, call.end_date)
       IN \A p \in 1..Len(call.busy_times) :
             (/\ blocks # {}
              /\ \A block \in blocks :
                    MaximalUncovered(block, SetOf(call.busy_times[p].value)) = {})
             => /\ locals.participant_free_times[p].value = <<>>
                /\ locals.common_free_times = <<>>
                /\ ret = Return(<<>>)

\* C18 witness: the last of three participants is busy throughout both
\* working days, the other two share free time, and nothing is returned.
C18_Witness ==
    /\ call.op = "find_available_slots"
    /\ Len(call.busy_times) = 3
    /\ Len(locals.working_blocks) = 2
    /\ locals.participant_free_times[3].value = <<>>
    /\ intersect_two_lists(locals.participant_free_times[1].value,
                           locals.participant_free_times[2].value).value # <<>>
    /\ ret = Return(<<>>)

\* C19: the time ranges find_available_slots returns, and their order, are
\* the same for every order of the participants in the busy-time map; only
\* the participants tag of the slots follows the order of the map.
C19_ParticipantOrderIsIrrelevant ==
    call.op = "find_available_slots"
    => \A f \in Orders(Len(call.busy_times)) :
          LET reordered == Reordered(call.busy_times, f)
              other == find_available_slots(
                           calculator.working_hours, call.start_date,
                           call.end_date, reordered, call.min_duration_minutes)
          IN /\ (other = ValueError) = (ret = ValueError)
             /\ ret # ValueError =>
                   /\ RangesOf(other.value) = RangesOf(ret.value)
                   /\ \A i \in 1..Len(other.value) :
                         other.value[i].participants = keys(reordered)

\* C19 witness: three participants with three different busy lists, each
\* leaving them some free time, and two or more common slots.
C19_Witness ==
    /\ call.op = "find_available_slots"
    /\ Len(call.busy_times) = 3
    /\ \A i, j \in 1..3 :
          i # j => call.busy_times[i].value # call.busy_times[j].value
    /\ \A i \in 1..3 :
          /\ call.busy_times[i].value # <<>>
          /\ locals.participant_free_times[i].value # <<>>
    /\ ret # ValueError
    /\ Len(ret.value) >= 2

\* C20: _merge_adjacent_ranges returns ranges of which each starts strictly
\* after the one before it ends - so ranges that overlap or touch have been
\* merged, and the result is sorted - and which cover exactly the instants
\* the input covers - so ranges with a gap between them are kept apart.
C20_MergedRangesAreSeparated ==
    call.op = "_merge_adjacent_ranges"
    => /\ ret # ValueError
       /\ LET input == SetOf(call.ranges)
              output == ret.value
              E == UNION {{r.start, r.end} : r \in input \cup SetOf(output)}
          IN /\ \A i \in 1..(Len(output) - 1) :
                   output[i].end < output[i + 1].start
             /\ \A r \in SetOf(output) : r.start < r.end
             /\ \A t \in E : Covered(SetOf(output), t) = Covered(input, t)

\* C20 witness: three ranges given out of order, two of them touching and
\* the third one apart, come back as two ranges.
C20_Witness ==
    /\ call.op = "_merge_adjacent_ranges"
    /\ Len(call.ranges) = 3
    /\ call.ranges[3].start < call.ranges[1].start
    /\ \E i, j \in 1..3 : call.ranges[i].end = call.ranges[j].start
    /\ \A i, j \in 1..3 : i # j => ~overlaps(call.ranges[i], call.ranges[j])
    /\ ret # ValueError
    /\ Len(ret.value) = 2

\* C21: for an empty busy-time map find_available_slots returns the empty
\* list - for every window, start_date = end_date included, and every
\* working-hours policy, start_time >= end_time included - and computes no
\* working blocks.
C21_NobodyGivesNothing ==
    (call.op = "find_available_slots" /\ call.busy_times = <<>>)
    => /\ ret = Return(<<>>)
       /\ locals = NoLocals

\* C21 witness: the search for nobody returned the empty list over a window
\* of several days in which the policy has working blocks.
C21_Witness ==
    /\ call.op = "find_available_slots"
    /\ call.busy_times = <<>>
    /\ PolicyOrdered
    /\ Cardinality(ClippedWorkingRanges(calculator.working_hours,
                                        call.start_date, call.end_date)) >= 2
    /\ ret = Return(<<>>)

\* C22: every slot find_available_slots returns is tagged with the full
\* participant list - every key of the busy-time map, in the order of the
\* map, the participants without busy time included - so all slots of one
\* result carry equal lists.
C22_SlotsCarryAllParticipants ==
    (call.op = "find_available_slots" /\ ret # ValueError)
    => /\ \A i \in 1..Len(ret.value) :
             /\ Len(ret.value[i].participants) = Len(call.busy_times)
             /\ \A k \in 1..Len(call.busy_times) :
                   ret.value[i].participants[k] = call.busy_times[k].key
       /\ \A i, j \in 1..Len(ret.value) :
             ret.value[i].participants = ret.value[j].participants

\* C22 witness: three participants, the second of them without busy time,
\* and two or more slots returned.
C22_Witness ==
    /\ call.op = "find_available_slots"
    /\ Len(call.busy_times) = 3
    /\ call.busy_times[1].value # <<>>
    /\ call.busy_times[2].value = <<>>
    /\ call.busy_times[3].value # <<>>
    /\ ret # ValueError
    /\ Len(ret.value) >= 2
    /\ ret.value[2].participants = <<"a", "b", "c">>

C24_InterleavedCallsAreIndependent ==
    \A i \in 1..Len(tasks) :
       /\ tasks[i].pc = "await_get_schedule" =>
             tasks[i].busy_times = None /\ tasks[i].ret = None
       /\ tasks[i].schedule = CalendarAPIError =>
             tasks[i].pc = "raised" /\ tasks[i].ret = CalendarAPIError
       /\ (tasks[i].pc = "returned") =>
             LET own == WithExplicitEmpty(tasks[i].participants,
                                          tasks[i].schedule.value)
                 expected ==
                     {r \in MaximalCommonFree(calculator.working_hours,
                                              tasks[i].start_date,
                                              tasks[i].end_date, own) :
                         r.end - r.start >= tasks[i].min_duration_minutes
                                                * SecondsPerMinute}
             IN /\ SetOf(tasks[i].busy_times.value) = SetOf(own)
                /\ SetOf(RangesOf(tasks[i].ret.value)) = expected
                /\ Len(tasks[i].ret.value) = Cardinality(expected)
                /\ \A k \in 1..Len(tasks[i].ret.value) :
                      SetOf(tasks[i].ret.value[k].participants) = SetOf(keys(own))

\* C24 witness: two coroutines for different participants are in flight;
\* the second has returned its slots while the first is still waiting.
C24_Witness ==
    /\ Len(tasks) = 2
    /\ tasks[1].pc = "await_get_schedule"
    /\ tasks[1].participants = <<"a">>
    /\ tasks[2].participants = <<"b">>
    /\ tasks[2].pc = "returned"
    /\ tasks[2].schedule.value # <<>>
    /\ Len(tasks[2].ret.value) >= 2

\* C25: from the moment find_slots or fetch_busy_times is called, get_schedule
\* has been invoked exactly once, with the participants, start_date, end_date
\* and timezone of the call as they were given, and this stays so when
\* get_schedule returns and when it raises: there is no second request.
C25_GetScheduleExactlyOnce ==
    (svc.pc # "idle") =>
        /\ call.op \in {"find_slots", "fetch_busy_times"}
        /\ svc.get_schedule_calls =
               <<[emails |-> call.participants, start_time |-> call.start_date,
                  end_time |-> call.end_date, timezone |-> call.timezone]>>

\* C25 witness: find_slots for <<"b", "a">> has ended with the exception of
\* get_schedule, after one request.
C25_Witness ==
    /\ call.op = "find_slots"
    /\ call.participants = <<"b", "a">>
    /\ svc.pc = "raised"
    /\ ret = CalendarAPIError
    /\ Len(svc.get_schedule_calls) = 1

\* C26 (through the service): every map find_slots hands to the calculator has
\* an entry for each requested participant.
RequestedAreKeysThroughTheService ==
    (call.op = "find_slots") =>
        \A k \in 1..Len(svc.calculator_calls) :
           \A i \in 1..Len(call.participants) :
              dict_has(svc.calculator_calls[k].busy_times, call.participants[i])

\* C26: whenever the application calls find_available_slots on fetched data,
\* through find_slots of the service or through the find command, every
\* requested participant is a key of the map handed to the calculator.
C26_RequestedAreKeysAtTheCalculator ==
    /\ RequestedAreKeysThroughTheService
    /\ (call.op = "find" /\ call.busy_times # CalendarAPIError) =>
           \A i \in 1..Len(call.participant_emails) :
              dict_has(call.busy_times.value, call.participant_emails[i])

\* The service has called the calculator for two participants of whom the
\* response names none.
ServiceFillsOmittedWitness ==
    /\ call.op = "find_slots"
    /\ call.participants = <<"a", "b">>
    /\ svc.schedule = Return(<<>>)
    /\ Len(svc.calculator_calls) = 1

\* C27: for any number of participants, one included, the returned slots are
\* in strictly ascending order of start and each slot starts strictly after
\* the slot before it ends; every slot has positive length.
C27_SlotsAscendingAndApart ==
    (call.op = "find_available_slots" /\ ret # ValueError)
    => /\ \A i \in 1..Len(ret.value) :
             ret.value[i].time_range.start < ret.value[i].time_range.end
       /\ \A i \in 1..(Len(ret.value) - 1) :
             /\ ret.value[i].time_range.start < ret.value[i + 1].time_range.start
             /\ ret.value[i].time_range.end < ret.value[i + 1].time_range.start

\* C27 witness: one participant, so no fold step runs, whose busy interval
\* splits the first of two working blocks: three slots are returned.
C27_Witness ==
    /\ call.op = "find_available_slots"
    /\ Len(call.busy_times) = 1
    /\ Len(call.busy_times[1].value) = 1
    /\ Len(locals.working_blocks) = 2
    /\ ret # ValueError
    /\ Len(ret.value) = 3
    /\ ret.value[1].time_range.end = call.busy_times[1].value[1].start
    /\ ret.value[2].time_range.start = call.busy_times[1].value[1].end

C29_OnlyTheUnionOfBusyMatters ==
    call.op = "find_available_slots"
    => \A p \in 1..Len(call.busy_times) :
          \A list \in SameBusy(call.busy_times[p].value) :
             find_available_slots(
                 calculator.working_hours, call.start_date, call.end_date,
                 [call.busy_times EXCEPT ![p].value = list],
                 call.min_duration_minutes) = ret

\* C29 witness: a participant with three chained intervals given out of order,
\* which leave slots before and after them.
C29_Witness ==
    /\ call.op = "find_available_slots"
    /\ ret # ValueError
    /\ Len(ret.value) >= 2
    /\ \E p \in 1..Len(call.busy_times) :
          LET busy == call.busy_times[p].value
          IN /\ Len(busy) = 3
             /\ busy[3].start < busy[2].start
             /\ busy[1].end = busy[3].start
             /\ \E i \in 1..Len(ret.value) :
                   ret.value[i].time_range.end = busy[1].start
             /\ \E i \in 1..Len(ret.value) :
                   ret.value[i].time_range.start = busy[2].end

\* The map the service made of the response: what fetch_busy_times returned,
\* or what find_slots handed to the calculator.
NormalizedInState ==
    IF call.op = "fetch_busy_times" THEN ret.value
    ELSE svc.calculator_calls[1].busy_times

\* C30: the keys of the normalised map are the requested participants in the
\* order of the request, each once, then the keys of the response nobody
\* requested, in the order of the response, each with the list of the
\* response; in find_slots these further participants are in the tag of
\* every slot, and no slot overlaps one of their busy intervals.
C30_AdditionalEntriesFollowAndConstrain ==
    (svc.pc \in {"returned", "raised"} /\ svc.schedule # CalendarAPIError)
    => LET schedule == svc.schedule.value
           additional ==
               SelectSeq(keys(schedule),
                         LAMBDA k : \A i \in 1..Len(call.participants) :
                                       call.participants[i] # k)
           normalized == NormalizedInState
       IN /\ keys(normalized) = Distinct(call.participants) \o additional
          /\ \A n \in 1..Len(normalized), m \in 1..Len(schedule) :
                normalized[n].key = schedule[m].key
                => normalized[n].value = schedule[m].value
          /\ (call.op = "find_slots" /\ ret # ValueError) =>
                \A i \in 1..Len(ret.value) :
                   /\ ret.value[i].participants
                         = Distinct(call.participants) \o additional
                   /\ \A m \in 1..Len(schedule) :
                      \A b \in 1..Len(schedule[m].value) :
                         ~ /\ ret.value[i].time_range.start < schedule[m].value[b].end
                           /\ schedule[m].value[b].start < ret.value[i].time_range.end

\* C30 witness: find_slots for <<"a", "a">> was answered with an entry for
\* "c", busy 10:00 - 12:00, before the entry for "a": the slots are tagged
\* <<"a", "c">> and one of them ends where "c" becomes busy.
C30_Witness ==
    /\ call.op = "find_slots"
    /\ call.participants = <<"a", "a">>
    /\ svc.pc = "returned"
    /\ svc.schedule.value =
          <<[key |-> "c", value |-> <<TimeRange(36000, 43200)>>],
            [key |-> "a", value |-> <<>>]>>
    /\ Len(ret.value) >= 2
    /\ ret.value[1].participants = <<"a", "c">>
    /\ ret.value[1].time_range.end = 36000

====
